---- MODULE Spec2Model ----
(***************************************************************************)
(* Model of caikit's GlobalTrainServicer                                   *)
(* (src/caikit/runtime/servicers/global_train_servicer.py): the Train()    *)
(* front door, run_training_job / run_async, the single-worker thread      *)
(* pool, the Local and SubProcess train-save executors, the cancellation   *)
(* callback registered on the request context, and _get_model_path.        *)
(*                                                                         *)
(* Strings that the code inspects (paths, training ids) are sequences of   *)
(* one-character strings, so that `in`, os.path.join and path components   *)
(* are computed rather than assumed.                                       *)
(***************************************************************************)
EXTENDS Integers, Sequences, FiniteSets, TLC

\* ------------------------------------------------------------------ bounds
\* number of Train()/run_training_job() invocations (one request thread each)
MaxCalls == 2
\* how many times the request context may invoke a registered callback
MaxHookFires == 2
\* number of invocations in the scenarios that examine one job
MaxExecCalls == 1
\* longest output-dir hint explored for _get_model_path
MaxHintLen == 3
\* longest training id explored for _get_model_path
MaxIdLen == 2

\* --------------------------------------------------------- program constants
OOM_EXIT_CODE == 137
EX_OK == 0

Calls == 1..MaxCalls

\* ------------------------------------------------------------------ strings
PathChars == {"/", "a", "b"}

RECURSIVE StringsUpTo(_)
StringsUpTo(n) ==
    IF n = 0 THEN {<<>>}
    ELSE LET shorter == StringsUpTo(n - 1)
         IN shorter \cup {Append(s, ch) : s \in shorter, ch \in PathChars}

NoSlash(s) == \A i \in 1..Len(s) : s[i] # "/"

\* Python: t in s   (substring test on str)
StrContains(s, t) ==
    \E i \in 0..(Len(s) - Len(t)) : SubSeq(s, i + 1, i + Len(t)) = t

\* posixpath.join(a, b)
PathJoin(a, b) ==
    IF Len(b) > 0 /\ b[1] = "/" THEN b
    ELSE IF Len(a) = 0 \/ a[Len(a)] = "/" THEN a \o b
    ELSE a \o <<"/">> \o b

PathJoin3(a, b, c) == PathJoin(PathJoin(a, b), c)

\* the absent hint (training_output_dir is None)
NoHint == <<"None">>

\* caikit_config.runtime.training.output_dir
training_output_dir == <<"/", "d">>

\* GlobalTrainServicer._get_model_path
GetModelPath(hint, model_name, training_id) ==
    IF hint # NoHint
    THEN IF StrContains(hint, training_id)
         THEN PathJoin(hint, model_name)
         ELSE PathJoin3(hint, training_id, model_name)
    ELSE PathJoin3(training_output_dir, training_id, model_name)

\* ------------------------------------------------------------------- errors
NoErr == [cls |-> "None", status |-> "-", msg |-> ""]
CRE(s, m) == [cls |-> "CaikitRuntimeException", status |-> s, msg |-> m]
Raw(c, m) == [cls |-> c, status |-> "-", msg |-> m]

IsCRE_always(e) == TRUE
IsCRE(e) == e.cls = "CaikitRuntimeException"

\* the exceptions collaborators (the module's train / save, the external
\* request-to-kwargs mapper) can raise; one of them is the fault of a scenario
Faults ==
    { CRE("NOT_FOUND", "no such data"),
      Raw("TypeError", "bad type"),
      Raw("ValueError", "bad param"),
      Raw("RuntimeError", "boom"),
      Raw("CancelledError", "") }

\* the value of a job result / exception slot that has not been produced yet
Pending == [cls |-> "Pending", status |-> "-", msg |-> ""]

\* ---------------------------------------------------------------- identities
Digits == <<"1", "2", "3", "4", "5", "6", "7", "8", "9">>
\* the values str(uuid4()) is drawn from
Ids == { <<"u", Digits[i]>> : i \in Calls }
NoId == <<>>
\* request.model_name
model_name == <<"m">>

\* -------------------------------------------------------------------- state
VARIABLES
    use_subprocess,          \* config: runtime.training.use_subprocess
    auto_load_trained_model, \* config: runtime.training.auto_load_trained_model
    fault,         \* scenario: the exception failing collaborators raise
    ncalls,        \* scenario: number of invocations made
    nfires,        \* scenario: times a context invokes its registered callback
    entry,         \* scenario: "Train" or "run_training_job" (called with wait=True)
    pc,            \* per call: position of the request thread
    resolvable,    \* per call: the request's declared type resolves to a module
    training_id,   \* per call: the training id of the job
    issued,        \* ids uuid4() has produced so far
    model_path,    \* per call: kwargs["model_path"]
    outcome,       \* per call: what the invocation returned or raised
    inner,         \* per call: the exception raised inside the invocation
    token,         \* per job: threading.Event  ("none" | "clear" | "set")
    fstate,        \* per job: concurrent.futures.Future._state
    fexc,          \* per job: the future's exception (NoErr: a result)
    training_map,  \* TrainingManager.training_futures: id -> job handle
    hook,          \* per job: cancel_future registered on the context
    fires,         \* per job: number of times the context invoked the callback
    queue,         \* ThreadPoolExecutor work queue
    cur,           \* job the single pool worker is executing (0: none)
    wpc,           \* position of the pool worker
    started,       \* jobs in the order the worker began executing them
    procState,     \* per job: _ErrorCaptureProcess in the parent
    procError,     \* per job: proc.error as seen by the PARENT process
    child,         \* per job: state of the forked child process
    childError,    \* per job: self.error inside the CHILD's address space
    exitcode,      \* per job: proc.exitcode (<<>>: None)
    tsResult,      \* per job: how train_and_save_model ended in the worker
    trainCalls, saveCalls, loadCalls,  \* per job: invocations of train/save/load
    trainExc, saveExc,   \* per job: what module.train / model.save raised
    cancelResult,  \* per job: how SubProcessTrainSaveExecutor.cancel() ended
    firedEarly,    \* per job: the callback ran while the job was queued/running
    nlogs,         \* per call: warning/error log records emitted
    submitted,     \* jobs in the order executor.submit accepted them
    startToken,    \* per job: the token as train_and_save_model found it on entry
    setInJoin,     \* per job: the token was set while the worker was in proc.join()
    p_pc, p_hint, p_name, p_tid, p_path,  \* harness for _get_model_path
    h_pc, h_error, h_exitcode, h_raised   \* harness for the code after proc.join()

callVars == <<pc, resolvable, training_id, issued, model_path, outcome, inner>>
jobVars  == <<token, fstate, fexc, training_map, hook, fires, firedEarly,
             setInJoin>>
poolVars == <<queue, submitted, cur, wpc, started, tsResult, loadCalls>>
procVars == <<procState, procError, child, childError, exitcode, cancelResult,
             startToken>>
modVars  == <<trainCalls, saveCalls, trainExc, saveExc>>
cfgVars  == <<use_subprocess, auto_load_trained_model, fault, entry, ncalls,
             nfires>>
pathVars == <<p_pc, p_hint, p_name, p_tid, p_path, h_pc, h_error, h_exitcode,
             h_raised>>
vars == <<callVars, jobVars, poolVars, procVars, modVars, cfgVars, nlogs, pathVars>>

NoOutcome == [kind |-> "none", model_name |-> <<>>, training_id |-> NoId, err |-> NoErr]
Returned(n, t) == [kind |-> "returned", model_name |-> n, training_id |-> t, err |-> NoErr]
Raised(e) == [kind |-> "raised", model_name |-> <<>>, training_id |-> NoId, err |-> e]

\* GlobalTrainServicer.__init__ : empty pool, empty training map
InitServicer ==
    /\ pc = [c \in Calls |-> "idle"]
    /\ resolvable = [c \in Calls |-> TRUE]
    /\ training_id = [c \in Calls |-> NoId]
    /\ issued = {}
    /\ model_path = [c \in Calls |-> <<>>]
    /\ outcome = [c \in Calls |-> NoOutcome]
    /\ inner = [c \in Calls |-> NoErr]
    /\ token = [c \in Calls |-> "none"]
    /\ fstate = [c \in Calls |-> "NONE"]
    /\ fexc = [c \in Calls |-> Pending]
    /\ training_map = <<>>
    /\ hook = [c \in Calls |-> FALSE]
    /\ fires = [c \in Calls |-> 0]
    /\ firedEarly = [c \in Calls |-> FALSE]
    /\ setInJoin = [c \in Calls |-> FALSE]
    /\ queue = <<>>
    /\ submitted = <<>>
    /\ cur = 0
    /\ wpc = "idle"
    /\ started = <<>>
    /\ procState = [c \in Calls |-> "none"]
    /\ procError = [c \in Calls |-> NoErr]
    /\ child = [c \in Calls |-> "none"]
    /\ childError = [c \in Calls |-> NoErr]
    /\ exitcode = [c \in Calls |-> <<>>]
    /\ tsResult = [c \in Calls |-> Pending]
    /\ trainCalls = [c \in Calls |-> 0]
    /\ saveCalls = [c \in Calls |-> 0]
    /\ loadCalls = [c \in Calls |-> 0]
    /\ trainExc = [c \in Calls |-> NoErr]
    /\ saveExc = [c \in Calls |-> NoErr]
    /\ cancelResult = [c \in Calls |-> Pending]
    /\ startToken = [c \in Calls |-> "none"]
    /\ nlogs = [c \in Calls |-> 0]

JoinIdle ==
    /\ h_pc = "off"
    /\ h_error = NoErr
    /\ h_exitcode = EX_OK
    /\ h_raised = Pending

PathIdle ==
    /\ p_pc = "off"
    /\ p_hint = NoHint
    /\ p_name = <<>>
    /\ p_tid = <<>>
    /\ p_path = <<>>
    /\ JoinIdle

\* the servicer as constructed, under any configuration, serving Train();
\* failing collaborators raise a generic error; each request context runs its
\* callbacks once, when the RPC terminates
Init ==
    /\ InitServicer
    /\ PathIdle
    /\ use_subprocess \in BOOLEAN
    /\ auto_load_trained_model \in BOOLEAN
    /\ fault = Raw("RuntimeError", "boom")
    /\ entry = "Train"
    /\ ncalls = MaxCalls
    /\ nfires = 1

\* the servicer under any configuration, with request contexts that may
\* invoke a registered callback repeatedly
InitHook ==
    /\ InitServicer
    /\ PathIdle
    /\ use_subprocess \in BOOLEAN
    /\ auto_load_trained_model \in BOOLEAN
    /\ fault = Raw("RuntimeError", "boom")
    /\ entry = "Train"
    /\ ncalls = MaxExecCalls
    /\ nfires = MaxHookFires

\* one job submitted either through Train() or through run_training_job
\* called directly with wait=True
InitWait ==
    /\ InitServicer
    /\ PathIdle
    /\ use_subprocess \in BOOLEAN
    /\ auto_load_trained_model \in BOOLEAN
    /\ fault = Raw("RuntimeError", "boom")
    /\ entry \in {"Train", "run_training_job"}
    /\ ncalls = MaxExecCalls
    /\ nfires = MaxHookFires

\* concurrent Train() callers whose contexts never invoke the callback
InitLive ==
    /\ InitServicer
    /\ PathIdle
    /\ use_subprocess \in BOOLEAN
    /\ auto_load_trained_model \in BOOLEAN
    /\ fault = Raw("RuntimeError", "boom")
    /\ entry = "Train"
    /\ ncalls = MaxCalls
    /\ nfires = 0

\* concurrent Train() callers under any configuration; contexts invoke the
\* callback once, except under the SubProcess executor combined with
\* auto-load, where they never do
InitPool ==
    /\ InitServicer
    /\ PathIdle
    /\ use_subprocess \in BOOLEAN
    /\ auto_load_trained_model \in BOOLEAN
    /\ fault = Raw("RuntimeError", "boom")
    /\ entry = "Train"
    /\ ncalls = MaxCalls
    /\ nfires = IF use_subprocess /\ auto_load_trained_model THEN 0 ELSE 1

\* the servicer with the Local executor, for every kind of collaborator fault
InitLocal ==
    /\ InitServicer
    /\ PathIdle
    /\ use_subprocess = FALSE
    /\ auto_load_trained_model \in BOOLEAN
    /\ fault \in Faults
    /\ entry = "Train"
    /\ ncalls = MaxExecCalls
    /\ nfires = MaxHookFires

\* the servicer with the SubProcess executor; the routine in the child fails
\* with a domain error or with a generic one
InitSub ==
    /\ InitServicer
    /\ PathIdle
    /\ use_subprocess = TRUE
    /\ auto_load_trained_model \in BOOLEAN
    /\ fault = CRE("NOT_FOUND", "no such data")
    /\ entry = "Train"
    /\ ncalls = MaxExecCalls
    /\ nfires = MaxHookFires

\* ------------------------------------------------------------ Train() handlers
\* the except clauses of GlobalTrainServicer.Train: the exception that leaves
\* Train() when e was raised inside its try block
TrainHandle(e) ==
    IF IsCRE(e) THEN e
    ELSE IF e.cls = "CancelledError"
         \* the handler reads err.message, which CancelledError does not have;
         \* the AttributeError is raised inside the handler and leaves Train()
         THEN Raw("AttributeError", "'CancelledError' object has no attribute 'message'")
    ELSE IF e.cls \in {"TypeError", "ValueError"}
         THEN CRE("INVALID_ARGUMENT",
                  "Exception raised during inference. This may be a problem with your input: "
                      \o e.msg)
    ELSE CRE("INTERNAL", "Unhandled exception during training")

\* number of log.warning records the handler emits before raising
TrainLogs(e) == IF e.cls = "CancelledError" THEN 0 ELSE 1

\* what leaves the invocation when e is raised in run_training_job
Escaping(e) == IF entry = "Train" THEN TrainHandle(e) ELSE e
EscapeLogs(e) == IF entry = "Train" THEN TrainLogs(e) ELSE 0

\* str(uuid4()): a value not produced before (the value itself is opaque to
\* the code, so one representative of the unused values is taken)
uuid4_reuse == CHOOSE id \in Ids : TRUE
uuid4 == CHOOSE id \in Ids : id \notin issued

\* the training id is generated only past the "model is None" check
UuidReached_always(r) == TRUE
UuidReached(r) == r

ModuleNotFound ==
    CRE("INTERNAL", "Global Train not able to parse module for this Train Request")

\* --------------------------------------------------------- request threads
\* one invocation, from entry to run_async's executor.submit:
\* Train() resolves the module, raises if there is none, draws the training
\* id; run_training_job computes the model path, builds the kwargs (the
\* external mapper may raise m), creates the event and the executor, submits.
\* Invocations are interchangeable, so they are numbered in order of arrival.
Invoke(c) ==
    /\ pc[c] = "idle"
    /\ c <= ncalls
    /\ IF c = 1 THEN TRUE ELSE pc[c - 1] # "idle"
    /\ \E r \in (IF entry = "Train" THEN BOOLEAN ELSE {TRUE}) :
       \E m \in {NoErr, fault} :
        /\ resolvable' = [resolvable EXCEPT ![c] = r]
        /\ IF UuidReached(r)
           THEN /\ training_id' = [training_id EXCEPT ![c] = uuid4]
                /\ issued' = issued \cup {uuid4}
           ELSE UNCHANGED <<training_id, issued>>
        /\ IF ~r
           THEN /\ m = NoErr
                /\ inner' = [inner EXCEPT ![c] = ModuleNotFound]
                /\ outcome' = [outcome EXCEPT ![c] = Raised(TrainHandle(ModuleNotFound))]
                /\ nlogs' = [nlogs EXCEPT ![c] = @ + TrainLogs(ModuleNotFound)]
                /\ pc' = [pc EXCEPT ![c] = "raised"]
                /\ UNCHANGED <<model_path, token, procState, fstate, queue, submitted>>
           ELSE /\ model_path' = [model_path EXCEPT ![c] =
                                    GetModelPath(training_output_dir, model_name, uuid4)]
                /\ inner' = [inner EXCEPT ![c] = m]
                /\ IF m # NoErr
                   THEN /\ outcome' = [outcome EXCEPT ![c] = Raised(Escaping(m))]
                        /\ nlogs' = [nlogs EXCEPT ![c] = @ + EscapeLogs(m)]
                        /\ pc' = [pc EXCEPT ![c] = "raised"]
                        /\ UNCHANGED <<token, procState, fstate, queue, submitted>>
                   ELSE /\ token' = [token EXCEPT ![c] = "clear"]
                        /\ procState' = [procState EXCEPT ![c] =
                                            IF use_subprocess THEN "initial" ELSE "none"]
                        /\ fstate' = [fstate EXCEPT ![c] = "PENDING"]
                        /\ queue' = Append(queue, c)
                        /\ submitted' = Append(submitted, c)
                        /\ pc' = [pc EXCEPT ![c] = "submitted"]
                        /\ UNCHANGED <<outcome, nlogs>>
    /\ UNCHANGED <<fexc, training_map, hook, fires, firedEarly, setInJoin, cur, wpc,
                   started,                   tsResult, loadCalls, procError, child, childError, exitcode,
                   cancelResult, startToken, modVars, cfgVars, pathVars>>

FutureDone(c) == fstate[c] \in {"FINISHED", "CANCELLED"}

\* Future.result() once the future is done: the exception it raises (NoErr: none)
FutureResult(c) ==
    IF fstate[c] = "CANCELLED" THEN Raw("CancelledError", "") ELSE fexc[c]

\* Train() passes no wait argument (default False); the other entry waits
Wait_never == FALSE
Wait == entry = "run_training_job"

\* the rest of run_training_job after run_async returned:
\* self.training_map[training_id] = thread_future,
\* context.add_callback(cancel_future), and with wait=False the return of the
\* TrainingJob (with wait=True the thread goes on to thread_future.result())
Register_blocking(c) ==
    /\ pc[c] = "submitted"
    /\ FutureDone(c)
    /\ training_map' = (training_id[c] :> c) @@ training_map
    /\ hook' = [hook EXCEPT ![c] = TRUE]
    /\ IF Wait
       THEN /\ pc' = [pc EXCEPT ![c] = "hooked"]
            /\ UNCHANGED outcome
       ELSE /\ pc' = [pc EXCEPT ![c] = "returned"]
            /\ outcome' = [outcome EXCEPT ![c] = Returned(model_name, training_id[c])]
    /\ UNCHANGED <<resolvable, training_id, issued, model_path, inner, token,
                   fstate, fexc, fires, firedEarly, setInJoin, poolVars, procVars,
                   modVars,                   cfgVars, nlogs, pathVars>>
Register(c) ==
    /\ pc[c] = "submitted"
    /\ training_map' = (training_id[c] :> c) @@ training_map
    /\ hook' = [hook EXCEPT ![c] = TRUE]
    /\ IF Wait
       THEN /\ pc' = [pc EXCEPT ![c] = "hooked"]
            /\ UNCHANGED outcome
       ELSE /\ pc' = [pc EXCEPT ![c] = "returned"]
            /\ outcome' = [outcome EXCEPT ![c] = Returned(model_name, training_id[c])]
    /\ UNCHANGED <<resolvable, training_id, issued, model_path, inner, token,
                   fstate, fexc, fires, firedEarly, setInJoin, poolVars, procVars,
                   modVars,                   cfgVars, nlogs, pathVars>>

\* wait=True: thread_future.result() returns or raises once the future is
\* done, then the TrainingJob is returned
WaitResult(c) ==
    /\ pc[c] = "hooked"
    /\ Wait
    /\ FutureDone(c)
    /\ inner' = [inner EXCEPT ![c] = FutureResult(c)]
    /\ LET e == FutureResult(c)
       IN IF e # NoErr
          THEN /\ outcome' = [outcome EXCEPT ![c] = Raised(Escaping(e))]
               /\ nlogs' = [nlogs EXCEPT ![c] = @ + EscapeLogs(e)]
               /\ pc' = [pc EXCEPT ![c] = "raised"]
          ELSE /\ outcome' = [outcome EXCEPT ![c] = Returned(model_name, training_id[c])]
               /\ pc' = [pc EXCEPT ![c] = "returned"]
               /\ UNCHANGED nlogs
    /\ UNCHANGED <<resolvable, training_id, issued, model_path, jobVars, poolVars,
                   procVars, modVars, cfgVars, pathVars>>

\* ------------------------------------------------------ cancellation callback
\* concurrent.futures.Future.cancel(): a running or finished future cannot be
\* cancelled; a pending one becomes CANCELLED
FutureCancel(st) == IF st \in {"RUNNING", "FINISHED"} THEN st ELSE "CANCELLED"

\* cancel_future, invoked by the request context (caller disconnect / RPC end)
cancel_future_reset(c) ==
    /\ hook[c]
    /\ fires[c] < nfires
    /\ fires' = [fires EXCEPT ![c] = @ + 1]
    /\ firedEarly' = [firedEarly EXCEPT ![c] = @ \/ fstate[c] \in {"PENDING", "RUNNING"}]
    /\ IF fstate[c] = "RUNNING"
       THEN /\ token' = [token EXCEPT ![c] = IF @ = "set" THEN "clear" ELSE "set"]
            /\ fstate' = [fstate EXCEPT ![c] = FutureCancel(@)]
            /\ setInJoin' = [setInJoin EXCEPT ![c] = @ \/ (cur = c /\ wpc = "join")]
       ELSE UNCHANGED <<token, fstate, setInJoin>>
    /\ UNCHANGED <<callVars, fexc, training_map, hook, poolVars, procVars,
                   modVars, cfgVars, nlogs, pathVars>>
cancel_future_unguarded(c) ==
    /\ hook[c]
    /\ fires[c] < nfires
    /\ fires' = [fires EXCEPT ![c] = @ + 1]
    /\ firedEarly' = [firedEarly EXCEPT ![c] = @ \/ fstate[c] \in {"PENDING", "RUNNING"}]
    /\ IF token[c] # "set"
       THEN /\ token' = [token EXCEPT ![c] = "set"]
            /\ fstate' = [fstate EXCEPT ![c] = FutureCancel(@)]
            /\ setInJoin' = [setInJoin EXCEPT ![c] = @ \/ (cur = c /\ wpc = "join")]
       ELSE UNCHANGED <<token, fstate, setInJoin>>
    /\ UNCHANGED <<callVars, fexc, training_map, hook, poolVars, procVars,
                   modVars, cfgVars, nlogs, pathVars>>
cancel_future_shared(c) ==
    /\ hook[c]
    /\ fires[c] < nfires
    /\ fires' = [fires EXCEPT ![c] = @ + 1]
    /\ firedEarly' = [firedEarly EXCEPT ![c] = @ \/ fstate[c] \in {"PENDING", "RUNNING"}]
    /\ IF fstate[c] = "RUNNING" /\ token[c] # "set"
       THEN /\ token' = [k \in Calls |-> IF token[k] = "none" THEN "none" ELSE "set"]
            /\ fstate' = [fstate EXCEPT ![c] = FutureCancel(@)]
            /\ setInJoin' = [setInJoin EXCEPT ![c] = @ \/ (cur = c /\ wpc = "join")]
       ELSE UNCHANGED <<token, fstate, setInJoin>>
    /\ UNCHANGED <<callVars, fexc, training_map, hook, poolVars, procVars,
                   modVars, cfgVars, nlogs, pathVars>>
cancel_future(c) ==
    /\ hook[c]
    /\ fires[c] < nfires
    /\ fires' = [fires EXCEPT ![c] = @ + 1]
    /\ firedEarly' = [firedEarly EXCEPT ![c] = @ \/ fstate[c] \in {"PENDING", "RUNNING"}]
    /\ IF fstate[c] = "RUNNING" /\ token[c] # "set"
       THEN /\ token' = [token EXCEPT ![c] = "set"]
            /\ fstate' = [fstate EXCEPT ![c] = FutureCancel(@)]
            /\ setInJoin' = [setInJoin EXCEPT ![c] = @ \/ (cur = c /\ wpc = "join")]
       ELSE UNCHANGED <<token, fstate, setInJoin>>
    /\ UNCHANGED <<callVars, fexc, training_map, hook, poolVars, procVars,
                   modVars, cfgVars, nlogs, pathVars>>

\* ----------------------------------------------------------------- the pool
\* the worker thread takes the next work item: _WorkItem.run() up to
\* set_running_or_notify_cancel()
WorkerPick_lifo ==
    /\ wpc = "idle"
    /\ cur = 0
    /\ queue # <<>>
    /\ LET j == queue[Len(queue)]
       IN /\ queue' = SubSeq(queue, 1, Len(queue) - 1)
          /\ IF fstate[j] = "CANCELLED"
             THEN UNCHANGED <<fstate, cur, wpc, started>>
             ELSE /\ fstate' = [fstate EXCEPT ![j] = "RUNNING"]
                  /\ cur' = j
                  /\ wpc' = "target"
                  /\ started' = Append(started, j)
    /\ UNCHANGED <<callVars, token, fexc, training_map, hook, fires, firedEarly,
                   setInJoin, submitted,                   tsResult, loadCalls, procVars, modVars, cfgVars, nlogs, pathVars>>
WorkerPick ==
    /\ wpc = "idle"
    /\ cur = 0
    /\ queue # <<>>
    /\ LET j == Head(queue)
       IN /\ queue' = Tail(queue)
          /\ IF fstate[j] = "CANCELLED"
             THEN UNCHANGED <<fstate, cur, wpc, started>>
             ELSE /\ fstate' = [fstate EXCEPT ![j] = "RUNNING"]
                  /\ cur' = j
                  /\ wpc' = "target"
                  /\ started' = Append(started, j)
    /\ UNCHANGED <<callVars, token, fexc, training_map, hook, fires, firedEarly,
                   setInJoin, submitted,                   tsResult, loadCalls, procVars, modVars, cfgVars, nlogs, pathVars>>

\* the work item ends: future.set_result / set_exception, worker idle again
Complete_workerDies(j, e) ==
    /\ fstate' = [fstate EXCEPT ![j] = "FINISHED"]
    /\ fexc' = [fexc EXCEPT ![j] = e]
    /\ cur' = IF e = NoErr THEN 0 ELSE j
    /\ wpc' = IF e = NoErr THEN "idle" ELSE "dead"
Complete(j, e) ==
    /\ fstate' = [fstate EXCEPT ![j] = "FINISHED"]
    /\ fexc' = [fexc EXCEPT ![j] = e]
    /\ cur' = 0
    /\ wpc' = "idle"

\* train_and_save_model ended with e (NoErr: returned) inside run_async's
\* target: with auto-load the worker goes on to _load_trained_model
EndTrainSave(j, e) ==
    /\ tsResult' = [tsResult EXCEPT ![j] = e]
    /\ IF e = NoErr /\ auto_load_trained_model
       THEN /\ wpc' = "load"
            /\ UNCHANGED <<fstate, fexc, cur>>
       ELSE Complete(j, e)

\* _load_trained_model: ModelManager.load_model / retrieve_model (external)
Load(j) ==
    /\ cur = j
    /\ wpc = "load"
    /\ loadCalls' = [loadCalls EXCEPT ![j] = @ + 1]
    /\ \E out \in {NoErr, Raw("RuntimeError", "load failed")} : Complete(j, out)
    /\ UNCHANGED <<callVars, token, training_map, hook, fires, firedEarly, setInJoin,
                   queue, submitted, started, tsResult, procVars, modVars, cfgVars, nlogs, pathVars>>

\* ------------------------------------------------------------ Local executor
\* the except clauses of LocalTrainSaveExecutor.train_and_save_model
LocalClassify_generic(e) ==
    IF IsCRE(e) THEN e
    ELSE CRE("INTERNAL", "Exception raised during training: " \o e.msg)
LocalClassify(e) ==
    IF IsCRE(e) THEN e
    ELSE IF e.cls \in {"TypeError", "ValueError"}
         THEN CRE("INVALID_ARGUMENT",
                  "Exception raised during training. This may be a problem with your input: "
                      \o e.msg)
    ELSE CRE("INTERNAL", "Exception raised during training: " \o e.msg)

\* model.save(model_path) is reached only when train returned a model
SaveReached(tout) == tout = NoErr

\* how the train-then-save routine ends when train raises tout and save sout
RoutineResult(tout, sout) ==
    IF tout # NoErr THEN LocalClassify(tout)
    ELSE IF sout # NoErr THEN LocalClassify(sout)
    ELSE NoErr

\* the outcomes of (train, save) the environment may produce
RoutineOutcomes ==
    {<<t, s>> \in {NoErr, fault} \X {NoErr, fault} : t # NoErr => s = NoErr}

\* bookkeeping of one run of the routine for job j
RunRoutine(j, tout, sout) ==
    /\ trainCalls' = [trainCalls EXCEPT ![j] = @ + 1]
    /\ trainExc' = [trainExc EXCEPT ![j] = tout]
    /\ saveCalls' = [saveCalls EXCEPT ![j] = IF SaveReached(tout) THEN @ + 1 ELSE @]
    /\ saveExc' = [saveExc EXCEPT ![j] = IF SaveReached(tout) THEN sout ELSE NoErr]
    /\ nlogs' = [nlogs EXCEPT ![j] = IF RoutineResult(tout, sout) # NoErr THEN @ + 1 ELSE @]

\* LocalTrainSaveExecutor.train_and_save_model on the pool worker
LocalTrainSave(j) ==
    /\ cur = j
    /\ wpc = "target"
    /\ ~use_subprocess
    /\ \E o \in RoutineOutcomes :
        /\ RunRoutine(j, o[1], o[2])
        /\ EndTrainSave(j, RoutineResult(o[1], o[2]))
    /\ UNCHANGED <<callVars, token, training_map, hook, fires, firedEarly, setInJoin,
                   queue, submitted, started, loadCalls, procVars, cfgVars, pathVars>>

\* ------------------------------------------------------- SubProcess executor
SIGTERM == 15
\* exit statuses of a child that dies without returning from run()
AbnormalExits == {OOM_EXIT_CODE, 3}

CancelledErr == CRE("CANCELLED", "Training request terminated")
StillRunningErr ==
    Raw("ValueError", "Cannot close a process while it is still running")

\* train_and_save_model, first part: set_args and proc.start() fork the child
SubStart(j) ==
    /\ cur = j
    /\ wpc = "target"
    /\ use_subprocess
    /\ procState' = [procState EXCEPT ![j] = "started"]
    /\ child' = [child EXCEPT ![j] = "running"]
    /\ wpc' = "check"
    /\ startToken' = [startToken EXCEPT ![j] = token[j]]
    /\ UNCHANGED <<callVars, jobVars, queue, submitted, cur, started, tsResult,
                   loadCalls,                   procError, childError, exitcode, cancelResult, modVars,
                   cfgVars, nlogs, pathVars>>

\* SubProcessTrainSaveExecutor.cancel(): proc.terminate() sends SIGTERM and
\* returns at once; proc.close() raises ValueError unless the child has already
\* been reaped; only then is the error logged and CANCELLED raised.
\* reaped: whether the child is gone by the time close() polls it
cancel(j, reaped) ==
    IF child[j] = "exited"
    THEN /\ procState' = [procState EXCEPT ![j] = "closed"]
         /\ cancelResult' = [cancelResult EXCEPT ![j] = CancelledErr]
         /\ nlogs' = [nlogs EXCEPT ![j] = @ + 1]
         /\ UNCHANGED <<child, exitcode>>
    ELSE IF reaped
    THEN /\ child' = [child EXCEPT ![j] = "exited"]
         /\ exitcode' = [exitcode EXCEPT ![j] = <<-SIGTERM>>]
         /\ procState' = [procState EXCEPT ![j] = "closed"]
         /\ cancelResult' = [cancelResult EXCEPT ![j] = CancelledErr]
         /\ nlogs' = [nlogs EXCEPT ![j] = @ + 1]
    ELSE /\ child' = [child EXCEPT ![j] = "signalled"]
         /\ cancelResult' = [cancelResult EXCEPT ![j] = StillRunningErr]
         /\ UNCHANGED <<procState, exitcode, nlogs>>

\* train_and_save_model, second part: if self.__event.is_set(): self.cancel()
\* (cancel always raises, so join is reached only when the event was clear)
SubCheck(j) ==
    /\ cur = j
    /\ wpc = "check"
    /\ IF token[j] = "set"
       THEN \E reaped \in BOOLEAN :
               /\ cancel(j, reaped)
               /\ EndTrainSave(j, cancelResult'[j])
       ELSE /\ wpc' = "join"
            /\ UNCHANGED <<fstate, fexc, cur, tsResult, procState, child,
                           exitcode, cancelResult, nlogs>>
    /\ UNCHANGED <<callVars, token, training_map, hook, fires, firedEarly, setInJoin,
                   queue, submitted, started, loadCalls, procError, childError, startToken, modVars,
                   cfgVars,
                   pathVars>>

\* the child process: _ErrorCaptureProcess.run() runs the Local routine; an
\* Exception is stored in the child's own copy of the object (fork: the
\* parent's proc.error is not written) and run() returns, so the exit status is 0
ChildRun(j) ==
    /\ child[j] = "running"
    /\ \E o \in RoutineOutcomes :
        /\ RunRoutine(j, o[1], o[2])
        /\ childError' = [childError EXCEPT ![j] = RoutineResult(o[1], o[2])]
    /\ child' = [child EXCEPT ![j] = "exited"]
    /\ exitcode' = [exitcode EXCEPT ![j] = <<EX_OK>>]
    /\ UNCHANGED <<callVars, jobVars, poolVars, procState, procError,
                   cancelResult, startToken, cfgVars, pathVars>>

\* the child dies without returning from run() (OOM kill, os._exit, signal)
ChildDie(j) ==
    /\ child[j] = "running"
    /\ \E code \in AbnormalExits :
        exitcode' = [exitcode EXCEPT ![j] = <<code>>]
    /\ child' = [child EXCEPT ![j] = "exited"]
    /\ UNCHANGED <<callVars, jobVars, poolVars, procState, procError, childError,
                   cancelResult, startToken, modVars, cfgVars, nlogs, pathVars>>

\* what the parent raises after proc.join() (NoErr: returns normally)
JoinResult_anyExit(perr, code) ==
    IF perr # NoErr
    THEN IF IsCRE(perr) THEN perr
         ELSE CRE("INTERNAL", "Error caught in training subprocess")
    ELSE IF code # 0 /\ code # EX_OK
    THEN CRE("UNKNOWN", "Training process died with exit code " \o ToString(code))
    ELSE NoErr
JoinResult(perr, code) ==
    IF perr # NoErr
    THEN IF IsCRE(perr) THEN perr
         ELSE CRE("INTERNAL", "Error caught in training subprocess")
    ELSE IF code # 0 /\ code # EX_OK
    THEN IF code = OOM_EXIT_CODE
         THEN CRE("RESOURCE_EXHAUSTED", "Training process died with OOM error!")
         ELSE CRE("UNKNOWN", "Training process died with exit code " \o ToString(code))
    ELSE NoErr

\* train_and_save_model, last part: proc.join() returns once the child exited
SubJoin(j) ==
    /\ cur = j
    /\ wpc = "join"
    /\ child[j] = "exited"
    /\ EndTrainSave(j, JoinResult(procError[j], exitcode[j][1]))
    /\ UNCHANGED <<callVars, token, training_map, hook, fires, firedEarly, setInJoin,
                   queue, submitted, started, loadCalls, procVars, modVars, cfgVars, nlogs, pathVars>>

\* ------------------------------------------------------------ specification
Next ==
    \/ \E c \in Calls : Invoke(c)
    \/ \E c \in Calls : Register(c)
    \/ \E c \in Calls : cancel_future(c)
    \/ WorkerPick
    \/ \E j \in Calls : LocalTrainSave(j)
    \/ \E j \in Calls : SubStart(j)
    \/ \E j \in Calls : SubCheck(j)
    \/ \E j \in Calls : ChildRun(j)
    \/ \E j \in Calls : ChildDie(j)
    \/ \E j \in Calls : SubJoin(j)
    \/ \E j \in Calls : Load(j)

Spec == Init /\ [][Next]_vars

HookSpec == InitHook /\ [][Next]_vars

NextWait ==
    \/ Next
    \/ \E c \in Calls : WaitResult(c)

WaitSpec == InitWait /\ [][NextWait]_vars

NextLive ==
    \/ \E c \in Calls : Invoke(c)
    \/ \E c \in Calls : Register(c)
    \/ WorkerPick
    \/ \E j \in Calls : LocalTrainSave(j)
    \/ \E j \in Calls : SubStart(j)
    \/ \E j \in Calls : SubCheck(j)
    \/ \E j \in Calls : ChildRun(j)
    \/ \E j \in Calls : ChildDie(j)
    \/ \E j \in Calls : SubJoin(j)
    \/ \E j \in Calls : Load(j)

\* a request thread is an OS thread of the gRPC server: once it has called
\* executor.submit, which only enqueues, it keeps being scheduled until it
\* returns. Nothing is assumed of the pool worker, of the training routine or
\* of the child process: a job may run forever.
RequestFairness == \A c \in Calls : WF_vars(Register(c))

LiveSpec == InitLive /\ [][NextLive]_vars /\ RequestFairness

\* the next statement of the pool worker thread: take a work item when idle,
\* else the next part of the target it is executing
WorkerStep ==
    \/ WorkerPick
    \/ \E j \in Calls :
          \/ LocalTrainSave(j)
          \/ SubStart(j)
          \/ SubCheck(j)
          \/ SubJoin(j)
          \/ Load(j)

\* the pool worker is a thread that keeps being scheduled, and every
\* train-and-save step terminates: the routine returns or raises (in the
\* worker or in the child process) or the child dies, and the external load
\* returns. Nothing is assumed of the callers or of their contexts.
WorkerFairness ==
    /\ WF_vars(WorkerStep)
    /\ \A j \in Calls : WF_vars(ChildRun(j) \/ ChildDie(j))

PoolSpec == InitPool /\ [][Next]_vars /\ WorkerFairness

NextLocal ==
    \/ \E c \in Calls : Invoke(c)
    \/ \E c \in Calls : Register(c)
    \/ \E c \in Calls : cancel_future(c)
    \/ WorkerPick
    \/ \E j \in Calls : LocalTrainSave(j)
    \/ \E j \in Calls : Load(j)

LocalSpec == InitLocal /\ [][NextLocal]_vars

NextSub ==
    \/ \E c \in Calls : Invoke(c)
    \/ \E c \in Calls : Register(c)
    \/ \E c \in Calls : cancel_future(c)
    \/ WorkerPick
    \/ \E j \in Calls : SubStart(j)
    \/ \E j \in Calls : SubCheck(j)
    \/ \E j \in Calls : ChildRun(j)
    \/ \E j \in Calls : ChildDie(j)
    \/ \E j \in Calls : SubJoin(j)
    \/ \E j \in Calls : Load(j)

SubSpec == InitSub /\ [][NextSub]_vars

\* --------------------------------------------- _get_model_path as a function
\* inputs: hints (absent or any string), model names and training ids
\* (non-empty, without a separator, as str(uuid4()) is)
HintInputs == {NoHint} \cup StringsUpTo(MaxHintLen)
NameInputs == {s \in StringsUpTo(1) : Len(s) > 0}
TidInputs == {s \in StringsUpTo(MaxIdLen) : Len(s) > 0 /\ NoSlash(s)}

PathInit ==
    /\ InitServicer
    /\ use_subprocess = FALSE
    /\ auto_load_trained_model = FALSE
    /\ fault = Raw("RuntimeError", "boom")
    /\ entry = "Train"
    /\ ncalls = 0
    /\ nfires = 0
    /\ p_pc = "ready"
    /\ p_hint \in HintInputs
    /\ p_name \in NameInputs
    /\ p_tid \in TidInputs
    /\ p_path = <<>>
    /\ JoinIdle

ApplyGetModelPath ==
    /\ p_pc = "ready"
    /\ p_path' = GetModelPath(p_hint, p_name, p_tid)
    /\ p_pc' = "done"
    /\ UNCHANGED <<callVars, jobVars, poolVars, procVars, modVars, cfgVars, nlogs,
                   p_hint, p_name, p_tid, h_pc, h_error, h_exitcode, h_raised>>

PathNext == ApplyGetModelPath

PathSpec == PathInit /\ [][PathNext]_vars

\* ------------------------- the code after proc.join() as a function of
\* (proc.error, proc.exitcode)
\* proc.error: nothing, a collaborator's exception, or one already classified
\* by the routine that runs in the child
ErrorInputs == {NoErr} \cup Faults \cup {LocalClassify(f) : f \in Faults}
\* proc.exitcode: normal exit, sys.exit(n), death by a signal
ExitCodeInputs == {EX_OK, 1, 2, -SIGTERM} \cup AbnormalExits

JoinInit ==
    /\ InitServicer
    /\ use_subprocess = TRUE
    /\ auto_load_trained_model = FALSE
    /\ fault = Raw("RuntimeError", "boom")
    /\ entry = "Train"
    /\ ncalls = 0
    /\ nfires = 0
    /\ p_pc = "off"
    /\ p_hint = NoHint
    /\ p_name = <<>>
    /\ p_tid = <<>>
    /\ p_path = <<>>
    /\ h_pc = "ready"
    /\ h_error \in ErrorInputs
    /\ h_exitcode \in ExitCodeInputs
    /\ h_raised = Pending

ApplyJoinResult ==
    /\ h_pc = "ready"
    /\ h_raised' = JoinResult(h_error, h_exitcode)
    /\ h_pc' = "done"
    /\ UNCHANGED <<callVars, jobVars, poolVars, procVars, modVars, cfgVars, nlogs,
                   p_pc, p_hint, p_name, p_tid, p_path, h_error, h_exitcode>>

JoinNext == ApplyJoinResult

JoinSpec == JoinInit /\ [][JoinNext]_vars

\* ===================================================================== claims

\* C1: no two invocations that returned a TrainingJob returned the same
\* training_id, and each returned id is one uuid4() produced for that call.
\* (uuid4 is taken to be collision-free; what is checked is that the id drawn
\* by a call is the one its TrainingJob carries, under any interleaving.)
C1_UniqueTrainingIds ==
    \A c1 \in Calls : \A c2 \in Calls :
        (c1 # c2 /\ outcome[c1].kind = "returned" /\ outcome[c2].kind = "returned")
            => /\ outcome[c1].training_id # outcome[c2].training_id
               /\ outcome[c1].training_id \in issued
               /\ outcome[c1].training_id # NoId

C1_Witness ==
    \E c1 \in Calls : \E c2 \in Calls :
        c1 # c2 /\ outcome[c1].kind = "returned" /\ outcome[c2].kind = "returned"

\* training_id is one of the "/"-separated components of the path s
HasPathComponent(s, t) ==
    \E i \in 1..Len(s) : \E j \in i..Len(s) :
        /\ SubSeq(s, i, j) = t
        /\ (i = 1 \/ s[i - 1] = "/")
        /\ (j = Len(s) \/ s[j + 1] = "/")

\* the reference rule of the specification (a/b read as path joining)
RefModelPath(hint, name, tid) ==
    IF hint = NoHint THEN PathJoin3(training_output_dir, tid, name)
    ELSE IF HasPathComponent(hint, tid) THEN PathJoin(hint, name)
    ELSE PathJoin3(hint, tid, name)

\* C2: _get_model_path equals the reference rule: no hint ->
\* default/training_id/model_name; hint with training_id as a path component
\* -> hint/model_name; any other hint (also one in which training_id is only
\* part of a component) -> hint/training_id/model_name.
C2_ModelPathRule ==
    p_pc = "done" => p_path = RefModelPath(p_hint, p_name, p_tid)

\* C3: a job's token is created clear and, once set, stays set: no step takes
\* a token from set to another value, whoever acts.
C3_TokenLatch ==
    [][\A c \in Calls :
          /\ (token[c] = "set" => token'[c] = "set")
          /\ (token[c] = "none" /\ token'[c] # "none" => token'[c] = "clear")
          /\ (token[c] # "none" => token'[c] # "none")]_vars

\* the callback was invoked again on a token that was already set
C3_Witness ==
    \E c \in Calls : token[c] = "set" /\ fires[c] >= 2

\* C4: whatever is raised inside Train() leaves it as a domain error: a domain
\* error unchanged, a TypeError/ValueError as INVALID_ARGUMENT, anything else
\* (a pool CancelledError included) as INTERNAL.
C4_TrainErrorsClassified ==
    \A c \in Calls :
        (entry = "Train" /\ outcome[c].kind = "raised") =>
            LET i == inner[c]
                o == outcome[c].err
            IN /\ IsCRE(o)
               /\ IsCRE(i) => o = i
               /\ (~IsCRE(i) /\ i.cls \in {"TypeError", "ValueError"})
                      => o.status = "INVALID_ARGUMENT"
               /\ (~IsCRE(i) /\ i.cls \notin {"TypeError", "ValueError"})
                      => o.status = "INTERNAL"

\* C5: a Train() call whose declared type resolves to no module raises
\* INTERNAL, and neither that step nor anything later gives the call a
\* training id, a token, a future, a queue slot, a registry entry or a
\* TrainingJob; the step leaves the ids, the pool and the registry as they were.
C5_UnresolvedState ==
    \A c \in Calls :
        (pc[c] # "idle" /\ ~resolvable[c]) =>
            /\ pc[c] = "raised"
            /\ outcome[c].kind = "raised"
            /\ outcome[c].err = ModuleNotFound
            /\ outcome[c].err.status = "INTERNAL"
            /\ training_id[c] = NoId
            /\ token[c] = "none"
            /\ fstate[c] = "NONE"
            /\ \A i \in 1..Len(queue) : queue[i] # c
            /\ \A id \in DOMAIN training_map : training_map[id] # c

C5_UnresolvedLeavesNoTrace ==
    /\ []C5_UnresolvedState
    /\ [][\A c \in Calls :
            (pc[c] = "idle" /\ pc'[c] # "idle" /\ ~resolvable'[c])
                => UNCHANGED <<issued, training_id, token, fstate, queue, training_map>>]_vars

\* an unresolvable call has raised while another job is in the system
C5_Witness ==
    \E c \in Calls : \E d \in Calls :
        /\ pc[c] = "raised" /\ ~resolvable[c]
        /\ fstate[d] # "NONE"

\* C6: Local executor: a domain error raised by train or save is the job's
\* result unchanged; a TypeError/ValueError gives INVALID_ARGUMENT; any other
\* error gives INTERNAL; save is invoked only after train returned.
C6_LocalClassification ==
    \A j \in Calls :
        (~use_subprocess /\ fstate[j] = "FINISHED") =>
            LET x == IF trainExc[j] # NoErr THEN trainExc[j] ELSE saveExc[j]
            IN /\ x # NoErr =>
                    /\ IsCRE(fexc[j])
                    /\ IsCRE(x) => fexc[j] = x
                    /\ (~IsCRE(x) /\ x.cls \in {"TypeError", "ValueError"})
                           => fexc[j].status = "INVALID_ARGUMENT"
                    /\ (~IsCRE(x) /\ x.cls \notin {"TypeError", "ValueError"})
                           => fexc[j].status = "INTERNAL"
               /\ saveCalls[j] > 0 => (trainCalls[j] > 0 /\ trainExc[j] = NoErr)
               /\ trainExc[j] # NoErr => saveCalls[j] = 0
               /\ saveCalls[j] <= 1

C6_Witness ==
    \E j \in Calls :
        /\ ~use_subprocess
        /\ fstate[j] = "FINISHED"
        /\ trainExc[j].cls = "ValueError"
        /\ fexc[j].status = "INVALID_ARGUMENT"
        /\ saveCalls[j] = 0

\* the parent went through proc.join() for job j (cancel() was not invoked)
Joined(j) == use_subprocess /\ tsResult[j] # Pending /\ cancelResult[j] = Pending

\* C7: SubProcess executor, proc.error unset in the parent after join: exit
\* code 137 gives RESOURCE_EXHAUSTED, any other nonzero exit code gives
\* UNKNOWN, exit code 0 lets train_and_save_model return without error.
C7_ExitCodeClassification ==
    \A j \in Calls :
        (Joined(j) /\ procError[j] = NoErr) =>
            LET code == exitcode[j][1]
            IN /\ code = 137 => (IsCRE(tsResult[j]) /\ tsResult[j].status = "RESOURCE_EXHAUSTED")
               /\ (code # 137 /\ code # 0) =>
                      (IsCRE(tsResult[j]) /\ tsResult[j].status = "UNKNOWN")
               /\ code = 0 => tsResult[j] = NoErr

C7_Witness ==
    \E j \in Calls :
        /\ Joined(j)
        /\ exitcode[j] = <<137>>
        /\ tsResult[j].status = "RESOURCE_EXHAUSTED"

\* C8: SubProcess executor: when the routine in the child raised a domain
\* error, the parent's train_and_save_model fails with that same error; the
\* job is not reported successful.
C8_ChildErrorPropagates ==
    \A j \in Calls :
        (Joined(j) /\ childError[j] # NoErr) =>
            /\ tsResult[j] = childError[j]
            /\ fstate[j] = "FINISHED" => fexc[j] = childError[j]

\* C9: every invocation of SubProcessTrainSaveExecutor.cancel() ends with the
\* child terminated and released and with a CANCELLED domain error.
C9_CancelRaisesCancelled ==
    \A j \in Calls :
        cancelResult[j] # Pending =>
            /\ cancelResult[j] = CancelledErr
            /\ child[j] = "exited"
            /\ procState[j] = "closed"

\* C10: auto-load disabled: once the teardown callback has run while the job
\* was queued or running, the token is set and the job does not end in
\* success: its result is CANCELLED.
C10_TeardownCancels ==
    \A c \in Calls :
        (~auto_load_trained_model /\ firedEarly[c]) =>
            /\ token[c] = "set"
            /\ FutureDone(c) =>
                   (IsCRE(FutureResult(c)) /\ FutureResult(c).status = "CANCELLED")

\* C11: with the pool of one worker, jobs begin executing in exactly the order
\* in which they were submitted, and a job has begun (is running or finished)
\* only if every job submitted before it is done (finished or cancelled).
C11_SubmissionOrder ==
    /\ Len(started) <= Len(submitted)
    /\ \A i \in 1..Len(started) : started[i] = submitted[i]
    /\ \A i \in 1..Len(submitted) : \A k \in 1..Len(submitted) :
         (i < k /\ fstate[submitted[k]] \in {"RUNNING", "FINISHED"})
            => FutureDone(submitted[i])

\* two jobs were submitted and both have been started by the worker
C11_Witness == Len(submitted) >= 2 /\ Len(started) >= 2

\* train and save of job j both ran and neither raised
RoutineSucceeded(j) ==
    /\ trainCalls[j] >= 1 /\ trainExc[j] = NoErr
    /\ saveCalls[j] >= 1 /\ saveExc[j] = NoErr

\* C12: per job the Model Manager's load is invoked at most once; it is invoked
\* only with auto-load enabled and only after train and save have succeeded;
\* it has been invoked once when a job with auto-load enabled finished after a
\* successful train-and-save; it is never invoked with auto-load disabled or
\* after train-and-save failed or was cancelled.
C12_LoadAfterSuccessOnly ==
    \A j \in Calls :
        /\ loadCalls[j] <= 1
        /\ loadCalls[j] >= 1 => (auto_load_trained_model /\ RoutineSucceeded(j))
        /\ (tsResult[j] # Pending /\ tsResult[j] # NoErr) => loadCalls[j] = 0
        /\ (fstate[j] = "FINISHED" /\ auto_load_trained_model /\ tsResult[j] = NoErr)
              => loadCalls[j] = 1

C14_SubmissionNeverBlocks ==
    \A c \in Calls :
        (pc[c] = "submitted") ~> (pc[c] = "returned" /\ outcome[c].kind = "returned")

\* a call has returned its TrainingJob while its job is still queued behind an
\* earlier job that occupies the worker
C14_Witness ==
    \E c \in Calls :
        /\ outcome[c].kind = "returned"
        /\ fstate[c] = "PENDING"
        /\ cur # 0 /\ cur # c

C16_PresetTokenNeverStarts ==
    \A j \in Calls :
        startToken[j] = "set" =>
            /\ child[j] = "none"
            /\ trainCalls[j] = 0
            /\ tsResult[j] # Pending => tsResult[j] = CancelledErr

\* C17: with the SubProcess executor, once the token has been set while the
\* parent is waiting in proc.join() for a child that is training, the job does
\* not complete by the child finishing on its own: its result is CANCELLED.
C17_HardCancelDuringJoin ==
    \A j \in Calls :
        (setInJoin[j] /\ tsResult[j] # Pending) => tsResult[j] = CancelledErr

\* job c's handle is in the registry under the job's training id
Registered(c) ==
    training_id[c] \in DOMAIN training_map /\ training_map[training_id[c]] = c

\* C18 (as stated): in every state in which a job has been submitted (queued,
\* running or finished) the registry holds its handle under its training id.
C18_RegisteredFromSubmission ==
    \A c \in Calls : fstate[c] # "NONE" => Registered(c)

\* C18 (amended): the registry holds a job's handle from the insertion that
\* follows the submission in run_training_job: whenever the call is past that
\* statement (callback registered, TrainingJob returned or the wait in
\* progress or over) the handle is registered under the job's training id;
\* and an entry, once inserted, is never removed nor replaced.
C18_RegisteredFromInsertion ==
    /\ [](\A c \in Calls :
            (hook[c] \/ pc[c] \in {"hooked", "returned"}) => Registered(c))
    /\ [][\A id \in DOMAIN training_map :
            id \in DOMAIN training_map' /\ training_map'[id] = training_map[id]]_vars

\* a job has run to its end before the submitting thread inserted its handle,
\* while another job's handle is already in the registry
C18_Witness ==
    \E c \in Calls : \E b \in Calls :
        /\ b # c /\ Registered(b)
        /\ fstate[c] = "FINISHED" /\ pc[c] = "submitted"

\* C19: for every job that ended with an error of the taxonomy, exactly one
\* log record was emitted for it between its origin and the caller: never
\* none, never two or more.
C19_LoggedExactlyOnce ==
    \A j \in Calls :
        (fstate[j] = "FINISHED" /\ tsResult[j] # NoErr /\ IsCRE(tsResult[j]))
            => nlogs[j] = 1

\* C20: an invocation of the teardown hook made while the job's handle is not
\* running (still queued, or completed) or while the token is already set
\* changes neither the token, nor the handle's state or result, nor the
\* registry; hence a token is set only for a job whose handle has been running.
C20_HookNoOpUnlessRunning ==
    /\ [][\A c \in Calls :
            (fires'[c] # fires[c] /\ (fstate[c] # "RUNNING" \/ token[c] = "set"))
                => UNCHANGED <<token, fstate, fexc, training_map>>]_vars
    /\ [](\A c \in Calls :
            token[c] = "set" => \E i \in 1..Len(started) : started[i] = c)

\* every invocation of a job's hook came after the job's handle had completed
C20_Witness ==
    \E c \in Calls : fires[c] >= 1 /\ ~firedEarly[c] /\ fstate[c] = "FINISHED"

\* C21: cancellation is isolated per job. A submission gives the job a token
\* of its own that starts clear and touches no other job's token; an
\* invocation of job a's teardown hook leaves every other job's token,
\* handle state and result, and registry entry unchanged.
C21_CancellationIsolated ==
    /\ [][\A c \in Calls :
            (fstate[c] = "NONE" /\ fstate'[c] # "NONE")
                => /\ token'[c] = "clear"
                   /\ \A b \in Calls \ {c} : token'[b] = token[b]]_vars
    /\ [][\A a \in Calls :
            fires'[a] # fires[a]
                => \A b \in Calls \ {a} :
                      /\ token'[b] = token[b]
                      /\ fstate'[b] = fstate[b]
                      /\ fexc'[b] = fexc[b]
                      /\ training_map' = training_map]_vars

\* job a's hook has set a's token while another registered job b is queued
\* behind it, b's token still clear
C21_Witness ==
    \E a \in Calls : \E b \in Calls :
        /\ a # b
        /\ fires[a] >= 1 /\ token[a] = "set"
        /\ Registered(b) /\ fstate[b] = "PENDING" /\ token[b] = "clear"

\* every job submitted so far has a completed handle
PoolDrained == \A c \in Calls : fstate[c] # "NONE" => FutureDone(c)

\* C22: a failing job does not stall the pool. When every train-and-save step
\* terminates, the worker again and again reaches a state in which every job
\* submitted so far has completed: no submitted job stays queued or running
\* for ever, whatever the outcome (success, error, cancellation) of the jobs
\* before it.
C22_PoolNeverStalls == []<>PoolDrained

\* a job ended with an error and a job submitted after it has completed too
C22_Witness ==
    \E i \in 1..Len(submitted) : \E k \in 1..Len(submitted) :
        /\ i < k
        /\ fstate[submitted[i]] = "FINISHED" /\ fexc[submitted[i]] # NoErr
        /\ fstate[submitted[k]] = "FINISHED"

====
